---- MODULE Spec2Model ----
(***************************************************************************)
(* A model of flit/validate.py: the classifier validation with its cache   *)
(* file and remote fetch, the pattern-based validators of names, version   *)
(* specifiers, requirements and entry points, and validate_config.         *)
(*                                                                         *)
(* A Python str is a sequence of one-character strings.  The cache file is *)
(* the sequence of characters it holds.                                    *)
(***************************************************************************)
EXTENDS Integers, Sequences, FiniteSets, TLC

VARIABLES
    active,       \* the processes that run validate_classifiers
    environ,      \* per process: the value of FLIT_NO_NETWORK in os.environ
    dirExists,    \* the cache directory exists
    fileExists,   \* <cache dir>/classifiers.lst exists
    fileContent,  \* the characters of classifiers.lst
    pc,           \* per process: its position in validate_classifiers
    classifiers,  \* per process: the argument of the running call
    problems,     \* per process: the local variable `problems`
    outcome,      \* per process: how the HTTP request of the running call ended
    resp,         \* per process: resp.content of the response received
    written,      \* per process: how many characters of resp.content reached the file
    result,       \* per process: how the last call ended
    calls,        \* per process: calls made so far
    atCall,       \* per process: the cache file as it was when the call began
    seen,         \* per process: what each read of the cache file observed, in order
    nrequests,    \* per process: HTTP requests made by the running call
    nwrites,      \* per process: opens-for-writing of the cache file by the running call
    last,         \* per process: its latest call that fetched and returned [], the
                  \* cache file not rewritten since; the call's argument and result
    requires_dist,\* metadata['requires_dist'] handed to validate_requires_dist
    rpc,          \* position of the validate_requires_dist call
    probs,        \* the list validate_requires_dist returned
    config,       \* config_info: the metadata record and the entry-point table
    host,         \* os.name, sys.platform and the environment get_cache_dir reads
    vpc,          \* position of the call of the function run on config or host
    out,          \* how that call ended
    log           \* the records logged at error level, in order

vars == <<active, environ, dirExists, fileExists, fileContent, pc, classifiers,
          problems, outcome, resp, written, result, calls, atCall, seen, nrequests,
          nwrites, last, requires_dist, rpc, probs, config, host, vpc, out, log>>

clsVars == <<active, environ, dirExists, fileExists, fileContent, pc, classifiers,
             problems, outcome, resp, written, result, calls, atCall, seen, nrequests,
             nwrites, last>>

reqVars == <<requires_dist, rpc, probs>>

auxVars == <<config, host, vpc, out, log>>

----------------------------------------------------------------------------
(* Bounds *)

MaxCalls == 2        \* calls of validate_classifiers by the process run alone
MaxSharedCalls == 1  \* calls by each of two processes sharing the cache
MaxReqLen == 3       \* length of the enumerated requirement strings
MaxNameLen == 3      \* length of the enumerated distribution names
MaxSpecLen == 3      \* length of the enumerated requires-python strings
MaxTargetLen == 3    \* length of the enumerated entry-point targets

----------------------------------------------------------------------------
(* Python strings *)

\* ord(c) for the characters the model uses
Ord(c) ==
    CASE c = "\n" -> 10
      [] c = " " -> 32
      [] c = "!" -> 33
      [] c = "(" -> 40
      [] c = ")" -> 41
      [] c = "*" -> 42
      [] c = "," -> 44
      [] c = "-" -> 45
      [] c = "." -> 46
      [] c = "1" -> 49
      [] c = ";" -> 59
      [] c = "<" -> 60
      [] c = "=" -> 61
      [] c = ">" -> 62
      [] c = "@" -> 64
      [] c = "A" -> 65
      [] c = "B" -> 66
      [] c = "C" -> 67
      [] c = "[" -> 91
      [] c = "]" -> 93
      [] c = "_" -> 95
      [] c = "a" -> 97
      [] c = "b" -> 98
      [] c = "~" -> 126

\* str < str: lexicographic by code point
RECURSIVE StrLess(_, _)
StrLess(s, t) ==
    IF t = <<>> THEN FALSE
    ELSE IF s = <<>> THEN TRUE
    ELSE IF Head(s) = Head(t) THEN StrLess(Tail(s), Tail(t))
    ELSE Ord(Head(s)) < Ord(Head(t))

\* sorted(S) for a set of str
RECURSIVE Sorted(_)
Sorted(S) ==
    IF S = {} THEN <<>>
    ELSE LET m == CHOOSE x \in S : \A y \in S \ {x} : StrLess(x, y)
         IN  <<m>> \o Sorted(S \ {m})

\* str.isspace() of one character
IsSpace(c) == c \in {" ", "\n"}

RECURSIVE LStrip(_)
LStrip(s) == IF s # <<>> /\ IsSpace(Head(s)) THEN LStrip(Tail(s)) ELSE s

RECURSIVE RStrip(_)
RStrip(s) ==
    IF s # <<>> /\ IsSpace(s[Len(s)]) THEN RStrip(SubSeq(s, 1, Len(s) - 1)) ELSE s

\* str.strip()
Strip(s) == RStrip(LStrip(s))

\* the index of the first c in s at or after i, or 0
RECURSIVE Find(_, _, _)
Find(s, c, i) ==
    IF i > Len(s) THEN 0
    ELSE IF s[i] = c THEN i
    ELSE Find(s, c, i + 1)

\* iterating a text file: the lines, each with its newline if it has one
RECURSIVE FileLines(_)
FileLines(s) ==
    IF s = <<>> THEN <<>>
    ELSE LET n == Find(s, "\n", 1)
         IN  IF n = 0 THEN <<s>>
             ELSE <<SubSeq(s, 1, n)>> \o FileLines(SubSeq(s, n + 1, Len(s)))


Range(f) == {f[i] : i \in DOMAIN f}

\* the characters repr() writes between the quotes q for the characters of s
RECURSIVE Escaped(_, _)
Escaped(s, q) ==
    IF s = <<>> THEN <<>>
    ELSE (CASE Head(s) = "\n" -> <<"\\", "n">>
            [] Head(s) = "\\" -> <<"\\", "\\">>
            [] Head(s) = q -> <<"\\", q>>
            [] OTHER -> <<Head(s)>>) \o Escaped(Tail(s), q)

\* '{!r}'.format(s): single quotes, unless s holds one and no double quote
Repr(s) ==
    LET q == IF "'" \in Range(s) /\ "\"" \notin Range(s) THEN "\"" ELSE "'"
    IN  <<q>> \o Escaped(s, q) \o <<q>>

----------------------------------------------------------------------------
(* Classifier validation *)

Procs == {1, 2}

\* os.environ values of FLIT_NO_NETWORK; Unset is the variable not being set
Unset == [set |-> FALSE, value |-> ""]
EnvValues == {Unset, [set |-> TRUE, value |-> ""], [set |-> TRUE, value |-> "1"]}

\* os.environ.get(name, default)
EnvGet(e, default) == IF e.set THEN e.value ELSE default

\* the truth value of a str
Truthy(v) == v # ""

\* the classifiers a caller may pass
Known == {<<"A">>, <<"B">>, <<"A", "B">>}

\* the argument: metadata.get('classifiers') is None when the key is absent
NoneArg == [given |-> FALSE, set |-> {}]
Args == {NoneArg} \cup {[given |-> TRUE, set |-> S] : S \in SUBSET Known}

\* bodies the classifier endpoint may answer with
Bodies == { <<>>,
            <<"A", "\n">>,
            <<"A", "\n", "B", "\n">>,
            <<" ", "B", " ", "\n", "A", "B">> }

\* how a call ended
NoResult == [kind |-> "none", value |-> <<>>, exc |-> ""]
Return(v) == [kind |-> "return", value |-> v, exc |-> ""]
Raise(e) == [kind |-> "raise", value |-> <<>>, exc |-> e]

\* what a look at the cache observes
Snapshot == [dir |-> dirExists, exists |-> fileExists, content |-> fileContent]

\* the message for one classifier
Unrecognised(c) == [text |-> "Unrecognised classifier: ", arg |-> Repr(c)]

\* valid_classifiers = set(l.strip() for l in f)
ValidClassifiers(content) == {Strip(l) : l \in Range(FileLines(content))}

\* _verify_classifiers_cached on a file that exists
VerifyCached(cls, content) ==
    LET invalid == cls \ ValidClassifiers(content)
        order == Sorted(invalid)
    IN  [i \in 1..Len(order) |-> Unrecognised(order[i])]

\* a variant: only None counts as no classifiers
EmptyInputNoneOnly(a) == ~a.given

\* `if not classifiers`: None and the empty collection are falsy
EmptyInput(a) == ~a.given \/ a.set = {}

\* a variant: the early return on a clean cache is missing
CacheHitNever(found) == FALSE

\* `if not problems`, after a read of the cache that succeeded
CacheHit(found) == found = <<>>

\* a variant: the flag counts only when it reads "true"
NoNetworkOnlyTrue(e) == EnvGet(e, "") = "true"

\* `if os.environ.get('FLIT_NO_NETWORK', '')`
NoNetwork(e) == Truthy(EnvGet(e, ""))

\* a variant: the local problems are returned when the flag is set
SkippedValueLocal(local) == local

\* the value returned when FLIT_NO_NETWORK is set: `return []`
SkippedValue(local) == <<>>

\* the value returned from the ConnectionError handler: `return problems`
OnConnectionError(local) == local

\* a variant: the problems computed before the download are returned
AfterDownloadStale(cls, local, content) == local

\* the value returned after a download: _verify_classifiers_cached(classifiers)
\* on the file as it is then
AfterDownload(cls, local, content) == VerifyCached(cls, content)

\* the byte a hole in a file reads as
Nul == "NUL"

\* a write of data at offset off of a file holding content
WriteAt(content, off, data) ==
    LET n == IF Len(content) > off + Len(data) THEN Len(content) ELSE off + Len(data)
    IN  [i \in 1..n |->
            IF i > off /\ i <= off + Len(data) THEN data[i - off]
            ELSE IF i <= Len(content) THEN content[i]
            ELSE Nul]

\* the end of a call: the frame is left
Finish(p, r) ==
    /\ result' = [result EXCEPT ![p] = r]
    /\ pc' = [pc EXCEPT ![p] = "idle"]

\* a caller invokes validate_classifiers(a)
Call(p, a) ==
    /\ p \in active
    /\ pc[p] = "idle"
    /\ calls[p] < (IF active = {p} THEN MaxCalls ELSE MaxSharedCalls)
    /\ calls' = [calls EXCEPT ![p] = @ + 1]
    /\ classifiers' = [classifiers EXCEPT ![p] = a]
    /\ pc' = [pc EXCEPT ![p] = "check"]
    /\ result' = [result EXCEPT ![p] = NoResult]
    /\ problems' = [problems EXCEPT ![p] = <<>>]
    /\ outcome' = [outcome EXCEPT ![p] = "none"]
    /\ resp' = [resp EXCEPT ![p] = <<>>]
    /\ written' = [written EXCEPT ![p] = 0]
    /\ atCall' = [atCall EXCEPT ![p] = Snapshot]
    /\ seen' = [seen EXCEPT ![p] = <<>>]
    /\ nrequests' = [nrequests EXCEPT ![p] = 0]
    /\ nwrites' = [nwrites EXCEPT ![p] = 0]
    /\ last' = [last EXCEPT ![p] =
                    IF outcome[p] = "ok" /\ result[p] = Return(<<>>)
                    THEN [args |-> classifiers[p], outcome |-> outcome[p],
                          result |-> result[p]]
                    ELSE IF nwrites[p] = 0 THEN @
                    ELSE [args |-> NoneArg, outcome |-> "none", result |-> NoResult]]
    /\ UNCHANGED <<active, environ, dirExists, fileExists, fileContent>>
    /\ UNCHANGED <<reqVars, auxVars>>

\* validate_classifiers up to the download: the empty-input return, the
\* check against the cache, and the FLIT_NO_NETWORK return
CheckCache(p) ==
    /\ p \in active
    /\ pc[p] = "check"
    /\ LET a == classifiers[p]
           no_network == NoNetwork(environ[p])
       IN  IF EmptyInput(a)
           THEN /\ Finish(p, Return(<<>>))
                /\ UNCHANGED <<problems, seen>>
           ELSE /\ seen' = [seen EXCEPT ![p] = Append(@, Snapshot)]
                /\ IF ~fileExists
                   THEN /\ UNCHANGED problems
                        /\ IF no_network
                           THEN Finish(p, Return(SkippedValue(problems[p])))
                           ELSE /\ pc' = [pc EXCEPT ![p] = "request"]
                                /\ UNCHANGED result
                   ELSE LET found == VerifyCached(a.set, fileContent)
                        IN  /\ problems' = [problems EXCEPT ![p] = found]
                            /\ IF CacheHit(found)
                               THEN Finish(p, Return(<<>>))
                               ELSE IF no_network
                               THEN Finish(p, Return(SkippedValue(found)))
                               ELSE /\ pc' = [pc EXCEPT ![p] = "request"]
                                    /\ UNCHANGED result
    /\ UNCHANGED <<active, environ, dirExists, fileExists, fileContent>>
    /\ UNCHANGED <<classifiers, outcome, resp, written, calls, atCall, nrequests,
                   nwrites>>
    /\ UNCHANGED <<last, reqVars, auxVars>>

\* a variant: the request is tried a second time before giving up
RequestConnectionErrorRetried(p) ==
    /\ p \in active
    /\ pc[p] = "request"
    /\ nrequests' = [nrequests EXCEPT ![p] = @ + 2]
    /\ outcome' = [outcome EXCEPT ![p] = "ConnectionError"]
    /\ Finish(p, Return(OnConnectionError(problems[p])))
    /\ UNCHANGED <<active, environ, dirExists, fileExists, fileContent>>
    /\ UNCHANGED <<classifiers, problems, resp, written, calls, atCall, seen, nwrites>>
    /\ UNCHANGED <<last, reqVars, auxVars>>

\* requests.get raises requests.ConnectionError; validate_classifiers catches it
RequestConnectionError(p) ==
    /\ p \in active
    /\ pc[p] = "request"
    /\ nrequests' = [nrequests EXCEPT ![p] = @ + 1]
    /\ outcome' = [outcome EXCEPT ![p] = "ConnectionError"]
    /\ Finish(p, Return(OnConnectionError(problems[p])))
    /\ UNCHANGED <<active, environ, dirExists, fileExists, fileContent>>
    /\ UNCHANGED <<classifiers, problems, resp, written, calls, atCall, seen, nwrites>>
    /\ UNCHANGED <<last, reqVars, auxVars>>

\* a variant: the cache file is opened for writing before the status of the
\* response is checked
RequestHTTPErrorAfterOpen(p) ==
    /\ p \in active
    /\ pc[p] = "request"
    /\ nrequests' = [nrequests EXCEPT ![p] = @ + 1]
    /\ outcome' = [outcome EXCEPT ![p] = "HTTPError"]
    /\ dirExists' = TRUE
    /\ fileExists' = TRUE
    /\ fileContent' = <<>>
    /\ nwrites' = [nwrites EXCEPT ![p] = @ + 1]
    /\ Finish(p, Raise("HTTPError"))
    /\ UNCHANGED <<active, environ>>
    /\ UNCHANGED <<classifiers, problems, resp, written, calls, atCall, seen>>
    /\ UNCHANGED <<last, reqVars, auxVars>>

\* the response has an error status: raise_for_status raises requests.HTTPError,
\* which is no ConnectionError and leaves validate_classifiers
RequestHTTPError(p) ==
    /\ p \in active
    /\ pc[p] = "request"
    /\ nrequests' = [nrequests EXCEPT ![p] = @ + 1]
    /\ outcome' = [outcome EXCEPT ![p] = "HTTPError"]
    /\ Finish(p, Raise("HTTPError"))
    /\ UNCHANGED <<active, environ, dirExists, fileExists, fileContent>>
    /\ UNCHANGED <<classifiers, problems, resp, written, calls, atCall, seen, nwrites>>
    /\ UNCHANGED <<last, reqVars, auxVars>>

\* the response is received with body b and a success status
RequestOk(p, b) ==
    /\ p \in active
    /\ pc[p] = "request"
    /\ nrequests' = [nrequests EXCEPT ![p] = @ + 1]
    /\ outcome' = [outcome EXCEPT ![p] = "ok"]
    /\ resp' = [resp EXCEPT ![p] = b]
    /\ pc' = [pc EXCEPT ![p] = "mkdir"]
    /\ UNCHANGED <<active, environ, dirExists, fileExists, fileContent>>
    /\ UNCHANGED <<classifiers, problems, written, result, calls, atCall, seen,
                   nwrites>>
    /\ UNCHANGED <<last, reqVars, auxVars>>

\* cache_dir.mkdir(parents=True), FileExistsError ignored
Mkdir(p) ==
    /\ p \in active
    /\ pc[p] = "mkdir"
    /\ dirExists' = TRUE
    /\ pc' = [pc EXCEPT ![p] = "open"]
    /\ UNCHANGED <<active, environ, fileExists, fileContent>>
    /\ UNCHANGED <<classifiers, problems, outcome, resp, written, result, calls,
                   atCall, seen, nrequests, nwrites>>
    /\ UNCHANGED <<last, reqVars, auxVars>>

\* open('wb'): the file is created or truncated
OpenForWrite(p) ==
    /\ p \in active
    /\ pc[p] = "open"
    /\ fileExists' = TRUE
    /\ fileContent' = <<>>
    /\ written' = [written EXCEPT ![p] = 0]
    /\ nwrites' = [nwrites EXCEPT ![p] = @ + 1]
    /\ pc' = [pc EXCEPT ![p] = "write"]
    /\ UNCHANGED <<active, environ, dirExists>>
    /\ UNCHANGED <<classifiers, problems, outcome, resp, result, calls, atCall, seen,
                   nrequests>>
    /\ UNCHANGED <<last, reqVars, auxVars>>

\* f.write(resp.content) and the flush: the data reaches the file in one
\* write or in several, the next k characters at a time
WriteChunk(p) ==
    /\ p \in active
    /\ pc[p] = "write"
    /\ \E k \in 1..(Len(resp[p]) - written[p]) :
          /\ fileContent' = WriteAt(fileContent, written[p],
                                    SubSeq(resp[p], written[p] + 1, written[p] + k))
          /\ written' = [written EXCEPT ![p] = @ + k]
    /\ UNCHANGED <<active, environ, dirExists, fileExists>>
    /\ UNCHANGED <<classifiers, problems, outcome, resp, pc, result, calls, atCall,
                   seen, nrequests, nwrites>>
    /\ UNCHANGED <<last, reqVars, auxVars>>

\* the end of the with block, everything written: the file is closed
CloseFile(p) ==
    /\ p \in active
    /\ pc[p] = "write"
    /\ written[p] = Len(resp[p])
    /\ pc' = [pc EXCEPT ![p] = "reverify"]
    /\ UNCHANGED <<active, environ, dirExists, fileExists, fileContent>>
    /\ UNCHANGED <<classifiers, problems, outcome, resp, written, result, calls,
                   atCall, seen, nrequests, nwrites>>
    /\ UNCHANGED <<last, reqVars, auxVars>>

\* return _verify_classifiers_cached(classifiers), after the download
Reverify(p) ==
    /\ p \in active
    /\ pc[p] = "reverify"
    /\ seen' = [seen EXCEPT ![p] = Append(@, Snapshot)]
    /\ IF fileExists
       THEN Finish(p, Return(AfterDownload(classifiers[p].set, problems[p], fileContent)))
       ELSE Finish(p, Raise("FileNotFoundError"))
    /\ UNCHANGED <<active, environ, dirExists, fileExists, fileContent>>
    /\ UNCHANGED <<classifiers, problems, outcome, resp, written, calls, atCall,
                   nrequests, nwrites>>
    /\ UNCHANGED <<last, reqVars, auxVars>>

----------------------------------------------------------------------------
(* Names, version specifiers and requirements *)

Letters == {"a", "b", "c", "d", "e", "f", "g", "h", "i", "j", "k", "l", "m",
            "n", "o", "p", "q", "r", "s", "t", "u", "v", "w", "x", "y", "z",
            "A", "B", "C", "D", "E", "F", "G", "H", "I", "J", "K", "L", "M",
            "N", "O", "P", "Q", "R", "S", "T", "U", "V", "W", "X", "Y", "Z"}
Digits == {"0", "1", "2", "3", "4", "5", "6", "7", "8", "9"}

\* [A-Z0-9] under re.IGNORECASE
IsAlnum(c) == c \in Letters \cup Digits

\* [A-Z0-9._-] under re.IGNORECASE
IsNameChar(c) == IsAlnum(c) \/ c \in {".", "_", "-"}

\* s[i:j] with Python's 0-based bounds, for 0 <= i and j <= len(s)
Slice(s, i, j) == SubSeq(s, i + 1, j)

\* the group ([A-Z0-9]|[A-Z0-9][A-Z0-9._-]*[A-Z0-9]) matches s[0:e]
NameGroup(s, e) ==
    \/ e = 1 /\ Len(s) >= 1 /\ IsAlnum(s[1])
    \/ /\ e >= 2 /\ e <= Len(s)
       /\ IsAlnum(s[1])
       /\ \A i \in 2..(e - 1) : IsNameChar(s[i])
       /\ IsAlnum(s[e])

\* `$`: at the end of the string, or before a newline that ends it
AtDollar(s, e) == e = Len(s) \/ (e = Len(s) - 1 /\ s[Len(s)] = "\n")

\* a variant: two of '.', '_' and '-' in a row are not allowed
NameMatchNoRuns(s) ==
    \E e \in 1..Len(s) :
        /\ NameGroup(s, e) /\ AtDollar(s, e)
        /\ \A i \in 1..(e - 1) :
              ~(s[i] \in {".", "_", "-"} /\ s[i + 1] \in {".", "_", "-"})

\* NAME.match(s) is not None
NameMatch(s) == \E e \in 1..Len(s) : NameGroup(s, e) /\ AtDollar(s, e)

\* the ends at which the regex engine tries the name group, in its order: the
\* first alternative, then the second from its longest match down
RECURSIVE LongerNames(_, _)
LongerNames(s, e) ==
    IF e < 2 THEN <<>>
    ELSE (IF NameGroup(s, e) THEN <<e>> ELSE <<>>) \o LongerNames(s, e - 1)

NameEnds(s) ==
    (IF NameGroup(s, 1) THEN <<1>> ELSE <<>>) \o LongerNames(s, Len(s))

\* \s* from offset i: the offset of the first character that is no whitespace
RECURSIVE SkipSpace(_, _)
SkipSpace(s, i) ==
    IF i < Len(s) /\ IsSpace(s[i + 1]) THEN SkipSpace(s, i + 1) ELSE i

\* .* from offset i: up to the next newline or the end
RECURSIVE DotStar(_, _)
DotStar(s, i) ==
    IF i < Len(s) /\ s[i + 1] # "\n" THEN DotStar(s, i + 1) ELSE i

\* a group that did not take part in the match reads as None
NoGroup == [matched |-> FALSE, text |-> <<>>]
Group(t) == [matched |-> TRUE, text |-> t]

NoMatch == [ok |-> FALSE, end |-> 0, extras |-> NoGroup, version |-> NoGroup,
            envmark |-> NoGroup]

\* what follows the name group in REQUIREMENT, from offset e:
\*   \s*(?P<extras>[.*])?  \s*(?P<version>[(=~<>!].*)?  \s*(?P<envmark>;.*)?
\* [.*] is a character class: one '.' or one '*'
AfterName(s, e) ==
    LET i1 == SkipSpace(s, e)
        hasExtras == i1 < Len(s) /\ s[i1 + 1] \in {".", "*"}
        i2 == IF hasExtras THEN i1 + 1 ELSE i1
        i3 == SkipSpace(s, i2)
        hasVersion == i3 < Len(s) /\ s[i3 + 1] \in {"(", "=", "~", "<", ">", "!"}
        i4 == IF hasVersion THEN DotStar(s, i3 + 1) ELSE i3
        i5 == SkipSpace(s, i4)
        hasEnvmark == i5 < Len(s) /\ s[i5 + 1] = ";"
        i6 == IF hasEnvmark THEN DotStar(s, i5 + 1) ELSE i5
    IN  [ok |-> TRUE, end |-> i6,
         extras |-> IF hasExtras THEN Group(Slice(s, i1, i2)) ELSE NoGroup,
         version |-> IF hasVersion THEN Group(Slice(s, i3, i4)) ELSE NoGroup,
         envmark |-> IF hasEnvmark THEN Group(Slice(s, i5, i6)) ELSE NoGroup]

\* REQUIREMENT.match(s).  Every part after the name is optional and can match
\* the empty string, so the first end the engine tries for the name succeeds
\* and it never comes back for a longer name.
RequirementMatch(s) ==
    LET ends == NameEnds(s)
    IN  IF ends = <<>> THEN NoMatch ELSE AfterName(s, ends[1])

\* s.split(sep) for a one-character sep
RECURSIVE Split(_, _)
Split(s, sep) ==
    LET n == Find(s, sep, 1)
    IN  IF n = 0 THEN <<s>>
        ELSE <<SubSeq(s, 1, n - 1)>> \o Split(SubSeq(s, n + 1, Len(s)), sep)

\* the operator alternatives of VERSION_SPEC: ~= | ===? | != | <=? | >=?
\* the length of the operator clause begins with, or 0
OperatorLen(c) ==
    IF Len(c) >= 2 /\ c[1] \in {"~", "!"} /\ c[2] = "=" THEN 2
    ELSE IF Len(c) >= 3 /\ c[1] = "=" /\ c[2] = "=" /\ c[3] = "=" THEN 3
    ELSE IF Len(c) >= 2 /\ c[1] = "=" /\ c[2] = "=" THEN 2
    ELSE IF Len(c) >= 2 /\ c[1] \in {"<", ">"} /\ c[2] = "=" THEN 2
    ELSE IF Len(c) >= 1 /\ c[1] \in {"<", ">"} THEN 1
    ELSE 0

\* VERSION_SPEC.match(c) is not None: an operator, then .*$
\* (were the longest operator followed by a line break that `$` rejects, a
\* shorter alternative would leave the same line break to `.*$`)
VersionSpecMatch(c) ==
    /\ OperatorLen(c) > 0
    /\ AtDollar(c, DotStar(c, OperatorLen(c)))

\* _valid_version_specifier(s)
ValidVersionSpecifier(s) ==
    \A i \in DOMAIN Split(s, ",") : VersionSpecMatch(Split(s, ",")[i])

CouldNotParse(req) == [text |-> "Could not parse requirement: ", arg |-> Repr(req)]
InvalidExtras(req) == [text |-> "Invalid extras in requirement: ", arg |-> Repr(req)]
InvalidVersion(req) ==
    [text |-> "Invalid version specifier in requirement: ", arg |-> Repr(req)]

\* all(NAME.match(e.strip()) for e in extras.split(','))
ValidExtras(extras) ==
    \A i \in DOMAIN Split(extras, ",") : NameMatch(Strip(Split(extras, ",")[i]))

\* the version group with one pair of enclosing parentheses removed
Unparenthesized(version) ==
    IF version # <<>> /\ version[1] = "(" /\ version[Len(version)] = ")"
    THEN Slice(version, 1, Len(version) - 1)
    ELSE version

\* the body of the loop of validate_requires_dist: what one requirement
\* appends to probs
RequirementProblems(req) ==
    LET m == RequirementMatch(req)
    IN  IF ~m.ok THEN <<CouldNotParse(req)>>
        ELSE (IF m.extras.matched /\ ~ValidExtras(m.extras.text)
              THEN <<InvalidExtras(req)>> ELSE <<>>)
             \o
             (IF m.version.matched
                 /\ ~ValidVersionSpecifier(Unparenthesized(m.version.text))
              THEN <<InvalidVersion(req)>> ELSE <<>>)

\* validate_requires_dist on metadata.get('requires_dist', [])
RECURSIVE RequiresDistProblems(_)
RequiresDistProblems(list) ==
    IF list = <<>> THEN <<>>
    ELSE RequirementProblems(Head(list)) \o RequiresDistProblems(Tail(list))

\* validate_requires_dist(metadata)
ValidateRequiresDist ==
    /\ rpc = "start"
    /\ probs' = RequiresDistProblems(IF requires_dist.given THEN requires_dist.list
                                     ELSE <<>>)
    /\ rpc' = "done"
    /\ UNCHANGED requires_dist
    /\ UNCHANGED <<clsVars, auxVars>>

----------------------------------------------------------------------------
(* Names, requires-python, entry points, the cache directory and            *)
(* validate_config                                                          *)

\* metadata.get(key, None) for a key that holds a str
NoStr == [given |-> FALSE, str |-> <<>>]
Str(s) == [given |-> TRUE, str |-> s]

\* a metadata dict without any of the keys the validators read
NoMetadata == [classifiers |-> NoneArg, name |-> NoStr, requires_python |-> NoStr,
               requires_dist |-> [given |-> FALSE, list |-> <<>>]]

InvalidName(name) == [text |-> "Invalid name: ", arg |-> Repr(name)]

\* validate_name, on metadata.get('name', None)
NameProblems(name) ==
    IF ~name.given \/ NameMatch(name.str) THEN <<>> ELSE <<InvalidName(name.str)>>

InvalidRequiresPython(spec) ==
    [text |-> "Invalid requires-python: ", arg |-> Repr(spec)]

\* validate_requires_python, on metadata.get('requires_python', None)
RequiresPythonProblems(spec) ==
    IF ~spec.given \/ ValidVersionSpecifier(spec.str)
    THEN <<>>
    ELSE <<InvalidRequiresPython(spec.str)>>

\* str.isidentifier(), for ASCII strings
IsIdentifier(n) ==
    /\ n # <<>>
    /\ n[1] \in Letters \cup {"_"}
    /\ \A i \in 2..Len(n) : n[i] \in Letters \cup Digits \cup {"_"}

\* _is_identifier_attr(s)
IsIdentifierAttr(s) ==
    \A i \in DOMAIN Split(s, ".") : IsIdentifier(Split(s, ".")[i])

\* a variant: only the module half of a target is looked at
ValidTargetModuleOnly(v) ==
    LET n == Find(v, ":", 1)
    IN  IF n # 0 THEN IsIdentifierAttr(SubSeq(v, 1, n - 1)) ELSE IsIdentifierAttr(v)

\* the flag `valid` for a target v: split at the first ':' if there is one
ValidTarget(v) ==
    LET n == Find(v, ":", 1)
    IN  IF n # 0
        THEN /\ IsIdentifierAttr(SubSeq(v, 1, n - 1))
             /\ IsIdentifierAttr(SubSeq(v, n + 1, Len(v)))
        ELSE IsIdentifierAttr(v)

\* 'Invalid entry point in group {}: {} = {}'.format(groupname, k, v)
InvalidEntryPoint(groupname, k, v) ==
    [text |-> "Invalid entry point in group ",
     arg |-> groupname \o <<":", " ">> \o k \o <<" ", "=", " ">> \o v]

\* the inner loop of validate_entrypoints over the items of one group
RECURSIVE GroupProblems(_, _)
GroupProblems(groupname, group) ==
    IF group = <<>> THEN <<>>
    ELSE (IF ValidTarget(Head(group).v)
          THEN <<>>
          ELSE <<InvalidEntryPoint(groupname, Head(group).k, Head(group).v)>>)
         \o GroupProblems(groupname, Tail(group))

\* validate_entrypoints: the dict of dicts is the sequence of its items, in
\* iteration order
RECURSIVE EntrypointProblems(_)
EntrypointProblems(entrypoints) ==
    IF entrypoints = <<>> THEN <<>>
    ELSE GroupProblems(Head(entrypoints).groupname, Head(entrypoints).group)
         \o EntrypointProblems(Tail(entrypoints))

\* an environment variable that holds a path: the path's components
PathValues == {[set |-> FALSE, value |-> <<>>],
               [set |-> TRUE, value |-> <<>>],
               [set |-> TRUE, value |-> <<"/x">>]}

\* os.environ.get(name, None) or fallback: None and '' are both falsy
PathOr(e, fallback) == IF e.set /\ e.value # <<>> THEN e.value ELSE fallback

\* no host is looked at
NoHost == [os_name |-> "", sys_platform |-> "",
           XDG_CACHE_HOME |-> [set |-> FALSE, value |-> <<>>],
           LOCALAPPDATA |-> [set |-> FALSE, value |-> <<>>],
           home |-> ""]

\* a variant: XDG_CACHE_HOME is honoured on every POSIX platform
CacheDirXdgOnDarwin(h) ==
    IF h.os_name = "posix"
    THEN PathOr(h.XDG_CACHE_HOME,
                IF h.sys_platform = "darwin"
                THEN <<h.home, "Library", "Caches">>
                ELSE <<h.home, ".cache">>) \o <<"flit">>
    ELSE PathOr(h.LOCALAPPDATA, <<h.home, "AppData", "Local">>) \o <<"flit">>

\* get_cache_dir(): the components of the Path returned; expanduser('~') is
\* h.home
CacheDir(h) ==
    IF h.os_name = "posix" /\ h.sys_platform # "darwin"
    THEN PathOr(h.XDG_CACHE_HOME, <<h.home, ".cache">>) \o <<"flit">>
    ELSE IF h.sys_platform = "darwin"
    THEN <<h.home, "Library", "Caches", "flit">>
    ELSE PathOr(h.LOCALAPPDATA, <<h.home, "AppData", "Local">>) \o <<"flit">>

\* validate_name(metadata)
ValidateName ==
    /\ vpc = "validate_name"
    /\ out' = Return(NameProblems(config.metadata.name))
    /\ vpc' = "done"
    /\ UNCHANGED <<config, host, log>>
    /\ UNCHANGED <<clsVars, reqVars>>

\* validate_requires_python(metadata)
ValidateRequiresPython ==
    /\ vpc = "validate_requires_python"
    /\ out' = Return(RequiresPythonProblems(config.metadata.requires_python))
    /\ vpc' = "done"
    /\ UNCHANGED <<config, host, log>>
    /\ UNCHANGED <<clsVars, reqVars>>

\* validate_entrypoints(entrypoints)
ValidateEntrypoints ==
    /\ vpc = "validate_entrypoints"
    /\ out' = Return(EntrypointProblems(config.entrypoints))
    /\ vpc' = "done"
    /\ UNCHANGED <<config, host, log>>
    /\ UNCHANGED <<clsVars, reqVars>>

\* get_cache_dir()
GetCacheDir ==
    /\ vpc = "get_cache_dir"
    /\ out' = Return(CacheDir(host))
    /\ vpc' = "done"
    /\ UNCHANGED <<config, host, log>>
    /\ UNCHANGED <<clsVars, reqVars>>

\* a variant: the file is read without stripping its lines
VerifyClassifiersCachedUnstripped(cls, exists, content) ==
    IF exists
    THEN LET order == Sorted(cls \ Range(FileLines(content)))
         IN  Return([i \in 1..Len(order) |-> Unrecognised(order[i])])
    ELSE Raise("FileNotFoundError")

\* _verify_classifiers_cached(cls): open() raises FileNotFoundError when the
\* file is not there
VerifyClassifiersCached(cls, exists, content) ==
    IF exists THEN Return(VerifyCached(cls, content)) ELSE Raise("FileNotFoundError")

\* a call of _verify_classifiers_cached on the set in metadata['classifiers']
VerifyClassifiers ==
    /\ vpc = "verify_classifiers_cached"
    /\ out' = VerifyClassifiersCached(config.metadata.classifiers.set, fileExists,
                                      fileContent)
    /\ vpc' = "done"
    /\ UNCHANGED <<config, host, log>>
    /\ UNCHANGED <<clsVars, reqVars>>

\* validate_config reaches its first validator:
\* validate_classifiers(i['metadata'].get('classifiers'))
ConfigClassifiers(p) ==
    /\ vpc = "validate_config"
    /\ calls[p] = 0
    /\ Call(p, config.metadata.classifiers)

\* a variant: the name is validated before the entry points
ConfigProblemsNameFirst(i, cls) ==
    cls \o NameProblems(i.metadata.name)
        \o EntrypointProblems(i.entrypoints)
        \o RequiresPythonProblems(i.metadata.requires_python)
        \o RequiresDistProblems(IF i.metadata.requires_dist.given
                                THEN i.metadata.requires_dist.list ELSE <<>>)

\* sum([...], []) in validate_config, cls being what validate_classifiers
\* returned
ConfigProblems(i, cls) ==
    cls \o EntrypointProblems(i.entrypoints)
        \o NameProblems(i.metadata.name)
        \o RequiresPythonProblems(i.metadata.requires_python)
        \o RequiresDistProblems(IF i.metadata.requires_dist.given
                                THEN i.metadata.requires_dist.list ELSE <<>>)

\* log.error(p)
ErrorRecord(p) == [level |-> "ERROR", msg |-> p]

\* validate_config after validate_classifiers: an exception of it leaves
\* validate_config; otherwise the other four validators run, every problem
\* is logged and the list is returned
ConfigFinish(p) ==
    /\ vpc = "validate_config"
    /\ calls[p] = 1
    /\ pc[p] = "idle"
    /\ result[p].kind # "none"
    /\ IF result[p].kind = "raise"
       THEN /\ out' = Raise(result[p].exc)
            /\ UNCHANGED log
       ELSE LET all == ConfigProblems(config, result[p].value)
            IN  /\ log' = log \o [k \in 1..Len(all) |-> ErrorRecord(all[k])]
                /\ out' = Return(all)
    /\ vpc' = "done"
    /\ UNCHANGED <<config, host>>
    /\ UNCHANGED <<clsVars, reqVars>>

\* the states the cache may be in when a process starts: never fetched, or
\* holding the list of an earlier fetch
CacheStates(bodies) ==
    {[dir |-> FALSE, file |-> FALSE, content |-> <<>>],
     [dir |-> TRUE, file |-> FALSE, content |-> <<>>]}
    \cup {[dir |-> TRUE, file |-> TRUE, content |-> b] : b \in bodies}

\* no function is run on config or host
InitAux ==
    /\ config = [metadata |-> NoMetadata, entrypoints |-> <<>>]
    /\ host = NoHost
    /\ vpc = "idle"
    /\ out = NoResult
    /\ log = <<>>

InitRequires ==
    /\ requires_dist = [given |-> FALSE, list |-> <<>>]
    /\ rpc = "idle"
    /\ probs = <<>>

InitClassifiers(running, caches) ==
    /\ active = running
    /\ environ \in [Procs -> EnvValues]
    /\ \A p \in Procs \ running : environ[p] = Unset
    /\ \E c \in caches :
          /\ dirExists = c.dir
          /\ fileExists = c.file
          /\ fileContent = c.content
    /\ pc = [p \in Procs |-> "idle"]
    /\ classifiers = [p \in Procs |-> NoneArg]
    /\ problems = [p \in Procs |-> <<>>]
    /\ outcome = [p \in Procs |-> "none"]
    /\ resp = [p \in Procs |-> <<>>]
    /\ written = [p \in Procs |-> 0]
    /\ result = [p \in Procs |-> NoResult]
    /\ calls = [p \in Procs |-> 0]
    /\ atCall = [p \in Procs |-> [dir |-> FALSE, exists |-> FALSE, content |-> <<>>]]
    /\ seen = [p \in Procs |-> <<>>]
    /\ nrequests = [p \in Procs |-> 0]
    /\ nwrites = [p \in Procs |-> 0]
    /\ last = [p \in Procs |-> [args |-> NoneArg, outcome |-> "none",
                                 result |-> NoResult]]

\* one process, as the program is run
Init == InitClassifiers({1}, CacheStates(Bodies)) /\ InitRequires /\ InitAux

Next ==
    \/ \E p \in Procs, a \in Args : Call(p, a)
    \/ \E p \in Procs : CheckCache(p)
    \/ \E p \in Procs : RequestConnectionError(p)
    \/ \E p \in Procs : RequestHTTPError(p)
    \/ \E p \in Procs, b \in Bodies : RequestOk(p, b)
    \/ \E p \in Procs : Mkdir(p)
    \/ \E p \in Procs : OpenForWrite(p)
    \/ \E p \in Procs : WriteChunk(p)
    \/ \E p \in Procs : CloseFile(p)
    \/ \E p \in Procs : Reverify(p)

Spec == Init /\ [][Next]_vars

\* two processes sharing the cache directory, each validating one of a few
\* classifier sets against one of a few answers
SharedArgs == {[given |-> TRUE, set |-> {<<"A">>}],
               [given |-> TRUE, set |-> {<<"A">>, <<"B">>}]}
SharedBodies == {<<"A", "\n">>, <<"A", "\n", "B", "\n">>}

InitConcurrent ==
    InitClassifiers({1, 2}, CacheStates(SharedBodies)) /\ InitRequires /\ InitAux

NextConcurrent ==
    \/ \E p \in Procs, a \in SharedArgs : Call(p, a)
    \/ \E p \in Procs : CheckCache(p)
    \/ \E p \in Procs : RequestConnectionError(p)
    \/ \E p \in Procs : RequestHTTPError(p)
    \/ \E p \in Procs, b \in SharedBodies : RequestOk(p, b)
    \/ \E p \in Procs : Mkdir(p)
    \/ \E p \in Procs : OpenForWrite(p)
    \/ \E p \in Procs : WriteChunk(p)
    \/ \E p \in Procs : CloseFile(p)
    \/ \E p \in Procs : Reverify(p)

SpecConcurrent == InitConcurrent /\ [][NextConcurrent]_vars

\* validate_requires_dist alone, on the requirement lists of RequiresInputs
ReqAlphabet == {"a", "1", ".", "-", "*", "[", "]", ",", ">", "=", "(", ")", ";",
                " ", "@"}

ReqStrings == UNION {[1..n -> ReqAlphabet] : n \in 0..MaxReqLen}

\* "pkg[extra1,extra2]>=1.0; python_version>='3.6'"
ExampleFull ==
    <<"p", "k", "g", "[", "e", "x", "t", "r", "a", "1", ",", "e", "x", "t", "r",
      "a", "2", "]", ">", "=", "1", ".", "0", ";", " ", "p", "y", "t", "h", "o",
      "n", "_", "v", "e", "r", "s", "i", "o", "n", ">", "=", "'", "3", ".", "6",
      "'">>

ExamplePkgAtBad == <<"p", "k", "g", "@", "b", "a", "d">>            \* "pkg@bad"
ExamplePkgParen == <<"p", "k", "g", " ", "(", "1", ".", "0", ")">>  \* "pkg (1.0)"
ExamplePkgExtras == <<"p", "k", "g", "[", "-", "x", "]">>           \* "pkg[-x]"
ExampleParen == <<"a", " ", "(", ">", "=", "1", ",", "<", "2", ")">> \* "a (>=1,<2)"
ExampleBare == <<"a", " ", "(", "1", ".", "0", ")">>                \* "a (1.0)"
ExampleCompat == <<"a", "~", "=", "1", ";", "x">>                   \* "a~=1;x"

Examples == {ExampleFull, ExamplePkgAtBad, ExamplePkgParen, ExamplePkgExtras,
             ExampleParen, ExampleBare, ExampleCompat}

RequiresInputs ==
    {[given |-> FALSE, list |-> <<>>], [given |-> TRUE, list |-> <<>>]}
    \cup {[given |-> TRUE, list |-> <<r>>] : r \in ReqStrings \cup Examples}
    \cup {[given |-> TRUE, list |-> <<x[1], x[2]>>] :
             x \in {y \in Examples \X Examples : y[1] # y[2]}}

InitRequiresDist ==
    /\ InitClassifiers({}, {[dir |-> FALSE, file |-> FALSE, content |-> <<>>]})
    /\ requires_dist \in RequiresInputs
    /\ rpc = "start"
    /\ probs = <<>>
    /\ InitAux

NextRequiresDist == ValidateRequiresDist

SpecRequiresDist == InitRequiresDist /\ [][NextRequiresDist]_vars

\* a call of function fn of the module on one of configs and one of hosts
InitCall(fn, configs, hosts) ==
    /\ config \in configs
    /\ host \in hosts
    /\ vpc = fn
    /\ out = NoResult
    /\ log = <<>>

\* no cache directory yet
NoCache == {[dir |-> FALSE, file |-> FALSE, content |-> <<>>]}

\* validate_name alone, on the names of NameInputs
NameAlphabet == {"a", "B", "2", ".", "-", "_", " ", "\n"}

NameStrings == UNION {[1..n -> NameAlphabet] : n \in 0..MaxNameLen}

ExampleFlit == <<"F", "l", "i", "t">>          \* 'Flit'
ExampleDotted == <<"a", ".", "b", "-", "2">>   \* 'a.b-2'
ExampleDashBad == <<"-", "b", "a", "d">>       \* '-bad'
ExampleTwoDots == <<"a", ".", ".", "b">>       \* 'a..b'

NameInputs ==
    {NoStr} \cup {Str(s) : s \in NameStrings \cup {ExampleFlit, ExampleDotted,
                                                    ExampleDashBad, ExampleTwoDots}}

InitName ==
    /\ InitClassifiers({}, NoCache)
    /\ InitRequires
    /\ InitCall("validate_name",
                {[metadata |-> [NoMetadata EXCEPT !.name = n], entrypoints |-> <<>>] :
                    n \in NameInputs},
                {NoHost})

NextName == ValidateName

SpecName == InitName /\ [][NextName]_vars

\* validate_requires_python alone, on the specifiers of PythonInputs
PythonAlphabet == {">", "<", "=", "~", "!", "3", ",", " ", "\n"}

PythonStrings == UNION {[1..n -> PythonAlphabet] : n \in 0..MaxSpecLen}

ExampleAtLeast == <<">", "=", "3", ".", "6">>          \* '>=3.6'
ExampleRange == <<">", "=", "3", ",", "<", "4">>       \* '>=3,<4'
ExampleNoOperator == <<"3", ".", "6">>                 \* '3.6'

PythonInputs ==
    {NoStr} \cup {Str(s) : s \in PythonStrings \cup {ExampleAtLeast, ExampleRange,
                                                      ExampleNoOperator}}

InitRequiresPython ==
    /\ InitClassifiers({}, NoCache)
    /\ InitRequires
    /\ InitCall("validate_requires_python",
                {[metadata |-> [NoMetadata EXCEPT !.requires_python = s],
                  entrypoints |-> <<>>] : s \in PythonInputs},
                {NoHost})

NextRequiresPython == ValidateRequiresPython

SpecRequiresPython == InitRequiresPython /\ [][NextRequiresPython]_vars

\* validate_entrypoints alone, on the tables of EntrypointInputs
TargetAlphabet == {"a", "1", "_", ".", ":", " "}

TargetStrings == UNION {[1..n -> TargetAlphabet] : n \in 0..MaxTargetLen}

\* 'pkg.mod:func'
ExampleTarget == <<"p", "k", "g", ".", "m", "o", "d", ":", "f", "u", "n", "c">>
\* 'pkg mod:func'
ExampleSpaceTarget == <<"p", "k", "g", " ", "m", "o", "d", ":", "f", "u", "n", "c">>
\* 'flit:main'
ExampleFlitMain == <<"f", "l", "i", "t", ":", "m", "a", "i", "n">>
\* 'a:b:c'
ExampleTwoColons == <<"a", ":", "b", ":", "c">>

TargetExamples == {ExampleTarget, ExampleSpaceTarget, ExampleFlitMain, ExampleTwoColons}

Item(k, v) == [k |-> k, v |-> v]
GroupItem(groupname, group) == [groupname |-> groupname, group |-> group]

EntrypointInputs ==
    {<<>>, <<GroupItem(<<"g">>, <<>>)>>}
    \cup {<<GroupItem(<<"g">>, <<Item(<<"k">>, v)>>)>> :
             v \in TargetStrings \cup TargetExamples}
    \cup {<<GroupItem(<<"g">>, <<Item(<<"k">>, x[1]), Item(<<"j">>, x[2])>>),
            GroupItem(<<"h">>, <<Item(<<"k">>, x[2])>>)>> :
             x \in TargetExamples \X TargetExamples}

InitEntrypoints ==
    /\ InitClassifiers({}, NoCache)
    /\ InitRequires
    /\ InitCall("validate_entrypoints",
                {[metadata |-> NoMetadata, entrypoints |-> e] : e \in EntrypointInputs},
                {NoHost})

NextEntrypoints == ValidateEntrypoints

SpecEntrypoints == InitEntrypoints /\ [][NextEntrypoints]_vars

\* _verify_classifiers_cached alone, on the sets of CachedInputs against the
\* cache files of CacheStates(Bodies)
CachedInputs == SUBSET (Known \cup {<<"C">>})

InitVerifyCached ==
    /\ InitClassifiers({}, CacheStates(Bodies))
    /\ InitRequires
    /\ InitCall("verify_classifiers_cached",
                {[metadata |-> [NoMetadata EXCEPT
                                   !.classifiers = [given |-> TRUE, set |-> S]],
                  entrypoints |-> <<>>] : S \in CachedInputs},
                {NoHost})

NextVerifyCached == VerifyClassifiers

SpecVerifyCached == InitVerifyCached /\ [][NextVerifyCached]_vars

\* get_cache_dir alone, on the hosts of Hosts
Platforms == {[os_name |-> "posix", sys_platform |-> "linux"],
              [os_name |-> "posix", sys_platform |-> "freebsd"],
              [os_name |-> "posix", sys_platform |-> "darwin"],
              [os_name |-> "nt", sys_platform |-> "win32"]}

Homes == {"/home/u", "/root"}

Hosts == {[os_name |-> p.os_name, sys_platform |-> p.sys_platform,
           XDG_CACHE_HOME |-> x, LOCALAPPDATA |-> l, home |-> h] :
             p \in Platforms, x \in PathValues, l \in PathValues, h \in Homes}

InitCacheDir ==
    /\ InitClassifiers({}, CacheStates({<<"A", "\n">>}))
    /\ InitRequires
    /\ InitCall("get_cache_dir", {[metadata |-> NoMetadata, entrypoints |-> <<>>]},
                Hosts)

NextCacheDir == GetCacheDir

SpecCacheDir == InitCacheDir /\ [][NextCacheDir]_vars

\* validate_config, run by process 1 on the records of ConfigInputs
BadEntrypoints ==
    <<GroupItem(<<"g">>, <<Item(<<"k">>, ExampleSpaceTarget), Item(<<"j">>, ExampleFlitMain),
                           Item(<<"i">>, ExampleTwoColons)>>)>>

BadRequires == [given |-> TRUE, list |-> <<<<"@">>, ExampleCompat, ExampleBare>>]

ConfigInputs ==
    {[metadata |-> [classifiers |-> c, name |-> n, requires_python |-> s,
                    requires_dist |-> r],
      entrypoints |-> e] :
        c \in SharedArgs \cup {NoneArg},
        n \in {NoStr, Str(ExampleFlit), Str(ExampleDashBad)},
        s \in {NoStr, Str(ExampleNoOperator)},
        r \in {[given |-> FALSE, list |-> <<>>], BadRequires},
        e \in {<<>>, BadEntrypoints}}

InitConfig ==
    /\ InitClassifiers({1}, CacheStates(SharedBodies))
    /\ InitRequires
    /\ InitCall("validate_config", ConfigInputs, {NoHost})

NextConfig ==
    \/ \E p \in Procs : ConfigClassifiers(p)
    \/ \E p \in Procs : CheckCache(p)
    \/ \E p \in Procs : RequestConnectionError(p)
    \/ \E p \in Procs : RequestHTTPError(p)
    \/ \E p \in Procs, b \in SharedBodies : RequestOk(p, b)
    \/ \E p \in Procs : Mkdir(p)
    \/ \E p \in Procs : OpenForWrite(p)
    \/ \E p \in Procs : WriteChunk(p)
    \/ \E p \in Procs : CloseFile(p)
    \/ \E p \in Procs : Reverify(p)
    \/ \E p \in Procs : ConfigFinish(p)

SpecConfig == InitConfig /\ [][NextConfig]_vars

----------------------------------------------------------------------------
(* The claims *)

\* the call of p has returned or raised
Ended(p) == pc[p] = "idle" /\ result[p].kind # "none"

\* p was called with a non-empty classifier set
NonEmpty(p) == classifiers[p].given /\ classifiers[p].set # {}

\* the skip-network flag is set in p's environment
FlagSet(p) == environ[p].set /\ environ[p].value # ""

\* the input classifiers the cache lacked when the call began
MissingAtCall(p) == classifiers[p].set \ ValidClassifiers(atCall[p].content)

\* ps is one 'Unrecognised classifier' problem for each element of S
OneProblemEach(ps, S) ==
    /\ Len(ps) = Cardinality(S)
    /\ Range(ps) = {Unrecognised(c) : c \in S}

\* the problems the cache gave when the call began
LocalProblems(p) ==
    IF atCall[p].exists THEN VerifyCached(classifiers[p].set, atCall[p].content)
    ELSE <<>>

\* the call of p made no request and did not touch the cache
NoFetch(p) ==
    /\ nrequests[p] = 0
    /\ nwrites[p] = 0
    /\ Snapshot = atCall[p]
    /\ pc[p] \in {"check", "idle"}

\* C1: a call with a non-empty classifier set whose fetch fails, by a
\* connectivity error or by an HTTP error status, returns the local problems
\* and raises nothing.
C1_FailedFetchReturns ==
    \A p \in active :
        (Ended(p) /\ NonEmpty(p) /\ outcome[p] \in {"ConnectionError", "HTTPError"})
            => result[p] = Return(problems[p])

\* C2: with the skip-network flag set and a cache file that lacks some of the
\* input classifiers, the call returns the local problems, one per missing
\* classifier.
C2_SkipReturnsLocal ==
    \A p \in active :
        (Ended(p) /\ FlagSet(p) /\ atCall[p].exists /\ MissingAtCall(p) # {})
            => /\ result[p].kind = "return"
               /\ OneProblemEach(result[p].value, MissingAtCall(p))

\* C2, amended: with the skip-network flag set and a cache file that lacks
\* some of the input classifiers, the call returns the empty list, and makes
\* no request and no write.
C2_SkipReturnsEmpty ==
    \A p \in active :
        (Ended(p) /\ FlagSet(p) /\ atCall[p].exists /\ MissingAtCall(p) # {})
            => /\ result[p] = Return(<<>>)
               /\ NoFetch(p)

\* C2, reached: such a call has read the cache and ended
C2_Witness ==
    \E p \in active :
        /\ Ended(p) /\ FlagSet(p) /\ atCall[p].exists /\ MissingAtCall(p) # {}
        /\ seen[p] # <<>>

\* C3: when the fetch succeeds the cache file is overwritten with the fetched
\* list first, and the call then returns one problem per input classifier
\* absent from the fetched list, whatever the cache held before.
C3_FetchThenRecheck ==
    \A p \in active :
        /\ (outcome[p] = "ok" /\ (pc[p] = "reverify" \/ Ended(p)))
              => fileExists /\ fileContent = resp[p] /\ nwrites[p] = 1
        /\ (outcome[p] = "ok" /\ Ended(p))
              => /\ seen[p][Len(seen[p])].content = resp[p]
                 /\ result[p].kind = "return"
                 /\ OneProblemEach(result[p].value,
                                   classifiers[p].set \ ValidClassifiers(resp[p]))

\* C3, reached: a fetch replaced a different cache and the result differs from
\* the problems found before it
C3_Witness ==
    \E p \in active :
        /\ Ended(p) /\ outcome[p] = "ok"
        /\ atCall[p].exists /\ atCall[p].content # resp[p]
        /\ result[p].value # <<>>
        /\ result[p].value # LocalProblems(p)

\* C4: if the cache file exists and holds every classifier of a non-empty
\* input set, the call returns the empty list without a network request and
\* without writing the cache file, whether or not the skip-network flag is set.
C4_CacheHitNoFetch ==
    \A p \in active :
        (calls[p] > 0 /\ NonEmpty(p) /\ atCall[p].exists /\ MissingAtCall(p) = {})
            => /\ NoFetch(p)
               /\ Ended(p) => result[p] = Return(<<>>)

\* C4, reached: a cache hit with the flag not set
C4_Witness ==
    \E p \in active :
        /\ Ended(p) /\ NonEmpty(p) /\ atCall[p].exists /\ MissingAtCall(p) = {}
        /\ ~FlagSet(p)

\* C5: with the skip-network flag not set and a fetch that fails with a
\* network failure (a connectivity error or an HTTP error), the call returns
\* the problems computed from the cache before the fetch, and the empty list
\* if the cache file was absent.
C5_FailedFetchFallsBack ==
    \A p \in active :
        (Ended(p) /\ NonEmpty(p) /\ ~FlagSet(p) /\ outcome[p] \notin {"none", "ok"})
            => result[p] = Return(LocalProblems(p))

\* C5, for connectivity errors alone: the call returns the problems computed
\* from the cache before the fetch, the empty list if the cache file was absent.
C5_ConnectionErrorFallsBack ==
    \A p \in active :
        (Ended(p) /\ NonEmpty(p) /\ ~FlagSet(p) /\ outcome[p] = "ConnectionError")
            => result[p] = Return(LocalProblems(p))

\* C6: with the skip-network flag set and no cache file, the call returns the
\* empty list for every non-empty input set, makes no network request and
\* creates no cache file.
C6_SkipWithoutCache ==
    \A p \in active :
        (calls[p] > 0 /\ NonEmpty(p) /\ FlagSet(p) /\ ~atCall[p].exists)
            => /\ NoFetch(p)
               /\ ~fileExists
               /\ Ended(p) => result[p] = Return(<<>>)

\* C6, reached: a call with several classifiers, the flag set and no cache file
C6_Witness ==
    \E p \in active :
        /\ Ended(p) /\ NonEmpty(p) /\ FlagSet(p) /\ ~atCall[p].exists
        /\ Cardinality(classifiers[p].set) > 1

\* C7: for an empty or absent classifier set the call returns the empty list
\* without reading the cache file, writing it or making a network request,
\* whatever the cache and the skip-network flag are.
C7_EmptyInputNoIO ==
    \A p \in active :
        (calls[p] > 0 /\ ~NonEmpty(p))
            => /\ seen[p] = <<>>
               /\ NoFetch(p)
               /\ Ended(p) => result[p] = Return(<<>>)

\* C7, reached: an empty set validated with a cache file present and the flag
\* not set
C7_Witness ==
    \E p \in active :
        /\ Ended(p) /\ classifiers[p].given /\ classifiers[p].set = {}
        /\ atCall[p].exists /\ ~FlagSet(p)

\* C8: the cache file is replaced wholesale: whatever a process reads from
\* the cache file while another process fetches is a complete list, the old
\* one or the new one, never an empty or partly written file.
C8_ReadsAreWhole ==
    \A p \in active :
        \A i \in DOMAIN seen[p] :
            seen[p][i].exists => seen[p][i].content \in SharedBodies

\* --- the requirement grammar, as the specification words it ---

\* the Name pattern: one alphanumeric, or an alphanumeric, any run of
\* alphanumerics, '.', '_' and '-', and an alphanumeric
IsName(s) ==
    /\ s # <<>>
    /\ s[1] \in Letters \cup Digits
    /\ s[Len(s)] \in Letters \cup Digits
    /\ \A i \in DOMAIN s : s[i] \in Letters \cup Digits \cup {".", "_", "-"}

Operators == {<<"~", "=">>, <<"=", "=">>, <<"=", "=", "=">>, <<"!", "=">>,
              <<"<", "=">>, <<">", "=">>, <<"<">>, <<">">>}

BeginsWithOperator(c) ==
    \E o \in Operators : Len(c) >= Len(o) /\ SubSeq(c, 1, Len(o)) = o

From(s, i) == SubSeq(s, i, Len(s))

IsMarker(w) == w # <<>> /\ w[1] = ";"

\* a version constraint and a marker, each optional, and nothing else
TailConforms(t) ==
    LET u == LStrip(t)
    IN  u = <<>> \/ u[1] \in {"(", "=", "~", "<", ">", "!"} \/ IsMarker(u)

\* a requirement string conforms to the grammar: a name, then optional
\* bracketed extras, an optional version constraint, an optional ';' marker
Conforms(s) ==
    \E n \in 1..Len(s) :
        /\ IsName(SubSeq(s, 1, n))
        /\ LET u == LStrip(From(s, n + 1))
           IN  \/ TailConforms(u)
               \/ /\ u # <<>> /\ u[1] = "["
                  /\ \E j \in 2..Len(u) : u[j] = "]" /\ TailConforms(From(u, j + 1))

\* every entry of a comma-separated extras list is a name
ExtrasWell(e) == \A i \in DOMAIN Split(e, ",") : IsName(Strip(Split(e, ",")[i]))

\* every clause of a version constraint, possibly parenthesized, begins with
\* an operator
VersionWell(v) ==
    /\ v # <<>>
    /\ LET c == IF v[1] = "(" /\ v[Len(v)] = ")" THEN SubSeq(v, 2, Len(v) - 1) ELSE v
       IN  \A i \in DOMAIN Split(c, ",") : BeginsWithOperator(Split(c, ",")[i])

TailWell(t) ==
    LET u == LStrip(t)
    IN  \/ u = <<>>
        \/ IsMarker(u)
        \/ \E m \in 1..Len(u) :
              /\ VersionWell(RStrip(SubSeq(u, 1, m)))
              /\ LET w == LStrip(From(u, m + 1)) IN w = <<>> \/ IsMarker(w)

\* a requirement string conforms and its extras and version constraint are valid
WellFormed(s) ==
    \E n \in 1..Len(s) :
        /\ IsName(SubSeq(s, 1, n))
        /\ LET u == LStrip(From(s, n + 1))
           IN  \/ TailWell(u)
               \/ /\ u # <<>> /\ u[1] = "["
                  /\ \E j \in 2..Len(u) :
                        /\ u[j] = "]"
                        /\ ExtrasWell(SubSeq(u, 2, j - 1))
                        /\ TailWell(From(u, j + 1))

\* the problems reported for the requirement string req
ProblemsAbout(req) == SelectSeq(probs, LAMBDA x : x.arg = Repr(req))

\* C9: a requirement string that does not conform to the requirement grammar,
\* such as "pkg@bad", gets exactly one 'Could not parse requirement' problem
\* and no other.
C9_MalformedIsReported ==
    rpc = "done" =>
        \A i \in DOMAIN requires_dist.list :
            ~Conforms(requires_dist.list[i])
                => ProblemsAbout(requires_dist.list[i])
                       = <<CouldNotParse(requires_dist.list[i])>>

\* C10: every requirement string that conforms to the grammar, with valid
\* extras and a valid version constraint, yields no problem.
C10_WellFormedIsAccepted ==
    rpc = "done" =>
        \A i \in DOMAIN requires_dist.list :
            WellFormed(requires_dist.list[i])
                => ProblemsAbout(requires_dist.list[i]) = <<>>

\* what may follow the name of a requirement that conforms
RestConforms(r) ==
    LET u == LStrip(r)
    IN  \/ TailConforms(u)
        \/ /\ u # <<>> /\ u[1] = "["
           /\ \E j \in 2..Len(u) : u[j] = "]" /\ TailConforms(From(u, j + 1))

\* the length of the name of a requirement that conforms
NameLenOf(s) ==
    CHOOSE n \in 1..Len(s) :
        /\ IsName(SubSeq(s, 1, n)) /\ RestConforms(From(s, n + 1))
        /\ \A k \in (n + 1)..Len(s) :
              ~(IsName(SubSeq(s, 1, k)) /\ RestConforms(From(s, k + 1)))

\* the index, in what follows the name, of the bracket that closes the extras
\* list, or 0 when there is no extras list
ClosingBracket(u) ==
    IF u # <<>> /\ u[1] = "["
    THEN CHOOSE j \in 2..Len(u) :
            /\ u[j] = "]" /\ TailConforms(From(u, j + 1))
            /\ \A k \in (j + 1)..Len(u) : ~(u[k] = "]" /\ TailConforms(From(u, k + 1)))
    ELSE 0

\* some entry of the bracketed extras list of a conforming requirement does
\* not match the Name pattern
BadExtras(s) ==
    LET u == LStrip(From(s, NameLenOf(s) + 1))
        j == ClosingBracket(u)
    IN  j > 0 /\ ~ExtrasWell(SubSeq(u, 2, j - 1))

\* some clause of the version constraint of a conforming requirement does not
\* begin with an operator; the constraint ends where the ';' marker begins
BadVersion(s) ==
    LET u == LStrip(From(s, NameLenOf(s) + 1))
        t == LStrip(From(u, ClosingBracket(u) + 1))
        semi == Find(t, ";", 1)
        v == RStrip(IF semi = 0 THEN t ELSE SubSeq(t, 1, semi - 1))
    IN  v # <<>> /\ ~VersionWell(v)

\* C11: for every requirement that parses, an 'Invalid extras' problem is
\* reported exactly when some entry of the bracketed extras list does not
\* match the Name pattern, and an 'Invalid version specifier' problem exactly
\* when some clause of the version constraint does not begin with an operator;
\* "pkg (1.0)" and "pkg[-x]" are reported.
C11_ExtrasAndVersionChecked ==
    rpc = "done" =>
        \A i \in DOMAIN requires_dist.list :
            LET r == requires_dist.list[i]
            IN  Conforms(r) =>
                   /\ (InvalidExtras(r) \in Range(ProblemsAbout(r))) = BadExtras(r)
                   /\ (InvalidVersion(r) \in Range(ProblemsAbout(r))) = BadVersion(r)

\* --- validate_name ---

\* the name validate_name was given, and its outcome
TheName == config.metadata.name

\* C12: validate_name returns an empty list if the name is absent or matches
\* the whole-string Name grammar, and otherwise exactly one 'Invalid name'
\* problem naming that string; it accepts no string with a leading or trailing
\* non-alphanumeric character, and not the empty string.
C12_NameGrammar ==
    vpc = "done" =>
        /\ out = Return(IF ~TheName.given \/ IsName(TheName.str)
                        THEN <<>>
                        ELSE <<InvalidName(TheName.str)>>)
        /\ (TheName.given /\ out = Return(<<>>)) =>
              /\ TheName.str # <<>>
              /\ TheName.str[1] \in Letters \cup Digits
              /\ TheName.str[Len(TheName.str)] \in Letters \cup Digits

\* C13 as stated: an empty list for 'Flit', 'a' and 'a.b-2'; exactly one
\* problem referencing the name for '-bad', '' and 'a..b'.
C13_ExampleNames ==
    (vpc = "done" /\ TheName.given) =>
        /\ TheName.str \in {ExampleFlit, <<"a">>, ExampleDotted}
              => out = Return(<<>>)
        /\ TheName.str \in {ExampleDashBad, <<>>, ExampleTwoDots}
              => out = Return(<<InvalidName(TheName.str)>>)

\* C13, amended: an empty list for 'Flit', 'a', 'a.b-2' and also for 'a..b',
\* which the Name grammar admits; exactly one problem referencing the name
\* for '-bad' and ''.
C13_ExampleNamesAmended ==
    (vpc = "done" /\ TheName.given) =>
        /\ TheName.str \in {ExampleFlit, <<"a">>, ExampleDotted, ExampleTwoDots}
              => out = Return(<<>>)
        /\ TheName.str \in {ExampleDashBad, <<>>}
              => out = Return(<<InvalidName(TheName.str)>>)

C13_Witness ==
    vpc = "done" /\ TheName = Str(ExampleTwoDots) /\ out = Return(<<>>)

\* --- validate_config ---

\* the validator a problem comes from, told by the text it begins with
Stage(m) ==
    CASE m.text = "Unrecognised classifier: " -> 1
      [] m.text = "Invalid entry point in group " -> 2
      [] m.text = "Invalid name: " -> 3
      [] m.text = "Invalid requires-python: " -> 4
      [] OTHER -> 5

\* the problems of s that come from validator k, in the order they have in s
Part(s, k) == SelectSeq(s, LAMBDA m : Stage(m) = k)

\* validate_config has returned
ConfigReturned == vpc = "done" /\ out.kind = "return"

\* C14: validate_config returns the concatenation of the five validators'
\* outputs in the order classifiers, entry points, name, requires-python,
\* requires-dist, each in its own order, and logs exactly one error-level
\* entry per returned problem, in the order of the returned list.
C14_ConfigOrderAndLog ==
    ConfigReturned =>
        /\ \A i, j \in DOMAIN out.value : i < j => Stage(out.value[i]) <= Stage(out.value[j])
        /\ Part(out.value, 1) = result[1].value
        /\ Part(out.value, 2) = EntrypointProblems(config.entrypoints)
        /\ Part(out.value, 3) = NameProblems(config.metadata.name)
        /\ Part(out.value, 4) = RequiresPythonProblems(config.metadata.requires_python)
        /\ Part(out.value, 5) = RequiresDistProblems(config.metadata.requires_dist.list)
        /\ Len(log) = Len(out.value)
        /\ \A k \in DOMAIN log : log[k] = [level |-> "ERROR", msg |-> out.value[k]]

\* every validator reports something, two of them more than one problem
C14_Witness ==
    /\ ConfigReturned
    /\ \A k \in 1..5 : Part(out.value, k) # <<>>
    /\ Len(Part(out.value, 2)) = 2
    /\ Len(Part(out.value, 5)) = 2
    /\ Len(log) = Len(out.value)

\* --- validate_entrypoints ---

\* an identifier token: non-empty, a letter or '_' first, then letters,
\* digits and '_'
IdentifierToken(t) ==
    /\ Len(t) >= 1
    /\ \A i \in 1..Len(t) :
          /\ t[i] \in Letters \cup Digits \cup {"_"}
          /\ i = 1 => t[i] \notin Digits

\* a non-empty '.'-separated sequence of identifier tokens: every maximal
\* stretch without '.' is an identifier token
DottedIdentifiers(s) ==
    \A a \in 1..(Len(s) + 1), b \in 0..Len(s) :
        ( /\ a <= b + 1
          /\ (a = 1 \/ s[a - 1] = ".")
          /\ (b = Len(s) \/ s[b + 1] = ".")
          /\ \A i \in a..b : s[i] # "." )
        => IdentifierToken(SubSeq(s, a, b))

\* a target is valid: split at its first ':', each part is a dotted sequence;
\* without ':' the whole string is
TargetIsValid(v) ==
    IF \E i \in DOMAIN v : v[i] = ":"
    THEN LET c == CHOOSE i \in DOMAIN v : v[i] = ":" /\ \A j \in 1..(i - 1) : v[j] # ":"
         IN  DottedIdentifiers(SubSeq(v, 1, c - 1)) /\ DottedIdentifiers(From(v, c + 1))
    ELSE DottedIdentifiers(v)

\* the (group, key) positions of the table, and those with an invalid target
Entries == UNION {{<<i, j>> : j \in DOMAIN config.entrypoints[i].group} :
                     i \in DOMAIN config.entrypoints}
TargetOf(x) == config.entrypoints[x[1]].group[x[2]].v
ProblemOf(x) ==
    InvalidEntryPoint(config.entrypoints[x[1]].groupname,
                      config.entrypoints[x[1]].group[x[2]].k, TargetOf(x))
InvalidEntries == {x \in Entries : ~TargetIsValid(TargetOf(x))}

\* a target with an empty half, an empty segment, a space or a second ':'
Malformed(v) ==
    \/ v = <<>>
    \/ \E i \in DOMAIN v : v[i] = " "
    \/ \E i, j \in DOMAIN v : i < j /\ v[i] = ":" /\ v[j] = ":"
    \/ v[1] \in {":", "."}
    \/ v[Len(v)] \in {":", "."}
    \/ \E i \in 1..(Len(v) - 1) : v[i] \in {".", ":"} /\ v[i + 1] \in {".", ":"}

\* C15: validate_entrypoints reports exactly one 'Invalid entry point in
\* group G: K = V' problem for each (group, key, target) whose target is
\* invalid and none for a valid target; a target with an empty half, an empty
\* segment, a space or a second ':' is invalid.
C15_EntryPointTargets ==
    vpc = "done" =>
        /\ out.kind = "return"
        /\ Len(out.value) = Cardinality(InvalidEntries)
        /\ \A x \in InvalidEntries : ProblemOf(x) \in Range(out.value)
        /\ \A m \in Range(out.value) : \E x \in InvalidEntries : m = ProblemOf(x)
        /\ \A x \in Entries : Malformed(TargetOf(x)) => ProblemOf(x) \in Range(out.value)

\* 'pkg mod:func' is reported and 'flit:main', in the same group, is not
C15_Witness ==
    /\ vpc = "done"
    /\ \E x, y \in Entries :
          /\ x[1] = y[1]
          /\ TargetOf(x) = ExampleSpaceTarget /\ TargetOf(y) = ExampleFlitMain
          /\ ProblemOf(x) \in Range(out.value)
          /\ ProblemOf(y) \notin Range(out.value)
    /\ Len(out.value) = 2

\* --- validate_requires_python ---

TheSpecifier == config.metadata.requires_python

\* every comma-separated clause begins, at its first character, with an
\* operator; what follows the operator does not matter
ClausesBeginWithOperator(s) ==
    \A i \in DOMAIN Split(s, ",") : BeginsWithOperator(Split(s, ",")[i])

\* C16: validate_requires_python returns an empty list if requires_python is
\* absent or every comma-separated clause of it begins with one of ~=, ==,
\* ===, !=, <=, >=, <, >, and otherwise exactly one 'Invalid requires-python'
\* problem; the text after the operator is never inspected.
C16_RequiresPython ==
    vpc = "done" =>
        out = Return(IF ~TheSpecifier.given \/ ClausesBeginWithOperator(TheSpecifier.str)
                     THEN <<>>
                     ELSE <<InvalidRequiresPython(TheSpecifier.str)>>)

\* --- _verify_classifiers_cached ---

\* the input set and the stripped lines of the cache file
InputSet == config.metadata.classifiers.set
CachedLines == {Strip(FileLines(fileContent)[i]) : i \in DOMAIN FileLines(fileContent)}

\* C17: _verify_classifiers_cached returns exactly one 'Unrecognised
\* classifier' problem for each element of the input set that is not among
\* the stripped lines of the cache file, in lexicographically sorted order,
\* and none for a classifier in the file; when the cache file is absent it
\* raises FileNotFoundError instead of returning.
C17_VerifyCached ==
    vpc = "done" =>
        IF fileExists
        THEN /\ out.kind = "return"
             /\ Len(out.value) = Cardinality(InputSet \ CachedLines)
             /\ \A c \in InputSet \ CachedLines : Unrecognised(c) \in Range(out.value)
             /\ \A c \in InputSet \cap CachedLines : Unrecognised(c) \notin Range(out.value)
             /\ \A i, j \in DOMAIN out.value :
                   i < j => \E c, d \in InputSet \ CachedLines :
                               /\ out.value[i] = Unrecognised(c)
                               /\ out.value[j] = Unrecognised(d)
                               /\ StrLess(c, d)
        ELSE out = Raise("FileNotFoundError")

\* the cache holds A and B, the input is {A, C}: one problem, for C
C17_Witness ==
    /\ vpc = "done"
    /\ fileContent = <<"A", "\n", "B", "\n">>
    /\ InputSet = {<<"A">>, <<"C">>}
    /\ out = Return(<<Unrecognised(<<"C">>)>>)

\* several classifiers are unrecognised
C17_WitnessSorted ==
    /\ vpc = "done"
    /\ fileExists
    /\ out.kind = "return"
    /\ Len(out.value) >= 3

\* --- get_cache_dir ---

\* XDG_CACHE_HOME is set to a non-empty value
XdgGiven == host.XDG_CACHE_HOME.set /\ host.XDG_CACHE_HOME.value # <<>>
LocalAppDataGiven == host.LOCALAPPDATA.set /\ host.LOCALAPPDATA.value # <<>>

\* the documented defaults: ~/.cache/flit, ~/Library/Caches/flit on macOS,
\* %LOCALAPPDATA%/flit on Windows (~\AppData\Local when that is not set)
DefaultCacheDir ==
    IF host.sys_platform = "darwin" THEN <<host.home, "Library", "Caches", "flit">>
    ELSE IF host.os_name = "posix" THEN <<host.home, ".cache", "flit">>
    ELSE IF LocalAppDataGiven THEN host.LOCALAPPDATA.value \o <<"flit">>
    ELSE <<host.home, "AppData", "Local", "flit">>

\* get_cache_dir changes nothing on disk
CacheDirTouchesNothing ==
    [][vpc = "get_cache_dir" => UNCHANGED <<dirExists, fileExists, fileContent>>]_vars

\* C18 as stated: on every POSIX platform, macOS included, get_cache_dir
\* returns <override>/flit when XDG_CACHE_HOME is set to a non-empty value and
\* the per-OS default otherwise; the directory is never created.
C18_XdgOnEveryPosix ==
    /\ [](vpc = "done" =>
            out = Return(IF host.os_name = "posix" /\ XdgGiven
                         THEN host.XDG_CACHE_HOME.value \o <<"flit">>
                         ELSE DefaultCacheDir))
    /\ CacheDirTouchesNothing

\* C18, amended: on the POSIX platforms other than macOS get_cache_dir
\* returns <override>/flit when XDG_CACHE_HOME is set to a non-empty value; on
\* macOS, and everywhere when there is no override, it returns the per-OS
\* default; the result depends only on the platform and the environment, and
\* the directory is never created.
C18_XdgExceptDarwin ==
    /\ [](vpc = "done" =>
            out = Return(IF host.os_name = "posix" /\ host.sys_platform # "darwin"
                            /\ XdgGiven
                         THEN host.XDG_CACHE_HOME.value \o <<"flit">>
                         ELSE DefaultCacheDir))
    /\ CacheDirTouchesNothing

\* macOS with XDG_CACHE_HOME set: the default is returned, nothing is created
C18_Witness ==
    /\ vpc = "done"
    /\ host.sys_platform = "darwin"
    /\ XdgGiven
    /\ out = Return(<<host.home, "Library", "Caches", "flit">>)
    /\ ~dirExists

\* Linux with XDG_CACHE_HOME set: the override is used
C18_WitnessLinux ==
    /\ vpc = "done"
    /\ host.sys_platform = "linux"
    /\ XdgGiven
    /\ out = Return(<<"/x", "flit">>)

\* --- the fetch and the cache, one process ---

\* C19: a fetch that fails, by a connectivity error or by an HTTP error
\* status, leaves the cache unchanged: the directory is not created and the
\* file keeps its content or stays absent; the file is opened for writing only
\* after the response was received and its status checked.
C19_FailedFetchLeavesCache ==
    \A p \in active :
        /\ outcome[p] \in {"ConnectionError", "HTTPError"}
              => /\ Snapshot = atCall[p]
                 /\ nwrites[p] = 0
                 /\ Ended(p)
        /\ (nwrites[p] > 0 \/ pc[p] \in {"mkdir", "open", "write", "reverify"})
              => outcome[p] = "ok"

\* a fetch failed by an HTTP error status while a cache file was there
C19_Witness ==
    \E p \in active :
        /\ Ended(p) /\ outcome[p] = "HTTPError"
        /\ atCall[p].exists /\ fileExists /\ fileContent = atCall[p].content
        /\ fileContent # <<>>

\* a fetch failed by a connectivity error with no cache directory
C19_WitnessNoCache ==
    \E p \in active :
        /\ Ended(p) /\ outcome[p] = "ConnectionError"
        /\ ~atCall[p].dir /\ ~dirExists /\ ~fileExists

\* the latest call of p that fetched and returned [] was for a set that
\* includes the set of the running call
FetchedBefore(p) ==
    /\ last[p].outcome = "ok"
    /\ last[p].result = Return(<<>>)
    /\ NonEmpty(p)
    /\ classifiers[p].set \subseteq last[p].args.set

\* C20: in one process, once a call has fetched successfully and returned an
\* empty list for a set S, every later call with S or a non-empty subset of
\* S, the cache file not changed in between, returns an empty list without a
\* network request; a call whose set has a classifier missing from the cache
\* makes exactly one fetch attempt when the skip flag is unset.
C20_FetchOncePerNeed ==
    \A p \in active :
        /\ FetchedBefore(p)
              => /\ NoFetch(p)
                 /\ Ended(p) => result[p] = Return(<<>>)
        /\ ( /\ Ended(p) /\ NonEmpty(p) /\ ~FlagSet(p)
             /\ (~atCall[p].exists \/ MissingAtCall(p) # {}) )
              => nrequests[p] = 1

\* a second call with a proper subset of the set fetched for ended without a
\* request
C20_Witness ==
    \E p \in active :
        /\ FetchedBefore(p) /\ Ended(p) /\ ~FlagSet(p)
        /\ classifiers[p].set # last[p].args.set
        /\ nrequests[p] = 0 /\ result[p] = Return(<<>>)

\* a call that lacked a classifier made its one request
C20_WitnessFetch ==
    \E p \in active :
        /\ Ended(p) /\ NonEmpty(p) /\ ~FlagSet(p)
        /\ atCall[p].exists /\ MissingAtCall(p) # {}
        /\ nrequests[p] = 1 /\ outcome[p] = "ok"

====
